---- MODULE Spec2Model ----
(***************************************************************************)
(* Model of harmonica_transpose.py: the jianpu tokenizer (parse_to_tokens), *)
(* the pitch transposer (transpose_tokens) and the renderer                 *)
(* (render_tokens), composed by transpose_sheet.                            *)
(*                                                                          *)
(* A text is a sequence of characters; a character is a one-element string  *)
(* except for the non-ASCII glyphs, which are written by name:              *)
(*   "FW(" "FW)"  the full-width parentheses  U+FF08 U+FF09                 *)
(*   "FW[" "FW]"  the lenticular brackets     U+3010 U+3011                 *)
(*   "FLAT"       the flat sign               U+266D                        *)
(***************************************************************************)
EXTENDS Integers, Sequences, FiniteSets, TLC

VARIABLES text, source_key, target_key, source_offset, target_offset,
          tokens, transposed, back, pieces, result_text, reparsed, stack,
          branch, pc

vars == <<text, source_key, target_key, source_offset, target_offset,
          tokens, transposed, back, pieces, result_text, reparsed, stack,
          branch, pc>>

----------------------------------------------------------------------------
(* Bounds of the model.                                                     *)

\* octave offsets of the note tokens drawn in NoteSpec: -MaxOct..MaxOct
MaxOct == 2
\* longest enumerated sheet text of Spec
MaxSheetLen == 3
\* longest enumerated text of ParseSpec
MaxParseLen == 5

----------------------------------------------------------------------------
(* Lookup tables.                                                           *)

KEY_OFFSETS ==
    [k \in {"G", "G#", "Ab", "A", "A#", "Bb", "B", "C", "C#", "Db",
            "D", "D#", "Eb", "E", "F", "F#", "Gb"} |->
        CASE k = "G" -> -5 [] k = "G#" -> -4 [] k = "Ab" -> -4
          [] k = "A" -> -3 [] k = "A#" -> -2 [] k = "Bb" -> -2
          [] k = "B" -> -1
          [] k = "C" -> 0  [] k = "C#" -> 1  [] k = "Db" -> 1
          [] k = "D" -> 2  [] k = "D#" -> 3  [] k = "Eb" -> 3
          [] k = "E" -> 4
          [] k = "F" -> 5  [] k = "F#" -> 6  [] k = "Gb" -> 6]

NOTE_SEMITONES ==
    [d \in 1..7 |->
        CASE d = 1 -> 0 [] d = 2 -> 2 [] d = 3 -> 4 [] d = 4 -> 5
          [] d = 5 -> 7 [] d = 6 -> 9 [] d = 7 -> 11]

\* a table with the slip 5 -> ('3', '#') in place of ('4', '')
SEMITONE_TO_NOTE_sharp3 ==
    [s \in 0..11 |->
        CASE s = 0 -> <<"1", "">>  [] s = 1 -> <<"1", "#">>
          [] s = 2 -> <<"2", "">>  [] s = 3 -> <<"2", "#">>
          [] s = 4 -> <<"3", "">>  [] s = 5 -> <<"3", "#">>
          [] s = 6 -> <<"4", "#">> [] s = 7 -> <<"5", "">>
          [] s = 8 -> <<"5", "#">> [] s = 9 -> <<"6", "">>
          [] s = 10 -> <<"6", "#">> [] s = 11 -> <<"7", "">>]

SEMITONE_TO_NOTE ==
    [s \in 0..11 |->
        CASE s = 0 -> <<"1", "">>  [] s = 1 -> <<"1", "#">>
          [] s = 2 -> <<"2", "">>  [] s = 3 -> <<"2", "#">>
          [] s = 4 -> <<"3", "">>  [] s = 5 -> <<"4", "">>
          [] s = 6 -> <<"4", "#">> [] s = 7 -> <<"5", "">>
          [] s = 8 -> <<"5", "#">> [] s = 9 -> <<"6", "">>
          [] s = 10 -> <<"6", "#">> [] s = 11 -> <<"7", "">>]

----------------------------------------------------------------------------
(* Tokens.                                                                  *)

NoteToken(note_num, accidental, octave_offset) ==
    [type |-> "note", note_num |-> note_num, accidental |-> accidental,
     octave_offset |-> octave_offset]

StrToken(t) == [type |-> "str", text |-> t]

IsNote(token) == token.type = "note"

\* int() of a one-digit string
IntOfDigit(c) ==
    CASE c = "0" -> 0 [] c = "1" -> 1 [] c = "2" -> 2 [] c = "3" -> 3
      [] c = "4" -> 4 [] c = "5" -> 5 [] c = "6" -> 6 [] c = "7" -> 7
      [] c = "8" -> 8 [] c = "9" -> 9

\* the f-string formatting of a degree 1..7
DigitOfInt(d) ==
    CASE d = 1 -> "1" [] d = 2 -> "2" [] d = 3 -> "3" [] d = 4 -> "4"
      [] d = 5 -> "5" [] d = 6 -> "6" [] d = 7 -> "7"

----------------------------------------------------------------------------
(* transpose_tokens.                                                        *)

\* str.capitalize() on the key names the model feeds in
Capitalize(name) ==
    CASE name = "bb" -> "Bb"
      [] name = "c" -> "C"
      [] OTHER -> name

\* KEY_OFFSETS.get(...) with every offset folded into 0..11
key_offset_mod12(name) ==
    IF Capitalize(name) \in DOMAIN KEY_OFFSETS
    THEN KEY_OFFSETS[Capitalize(name)] % 12
    ELSE 0

key_offset(name) ==
    IF Capitalize(name) \in DOMAIN KEY_OFFSETS
    THEN KEY_OFFSETS[Capitalize(name)]
    ELSE 0

\* the accidental left out of the semitone
original_semitone_no_acc(token) == NOTE_SEMITONES[token.note_num]

original_semitone(token) == NOTE_SEMITONES[token.note_num] + token.accidental

\* the source key left out of the absolute pitch
absolute_pitch_no_key(token, src_off) ==
    original_semitone(token) + (token.octave_offset * 12)

absolute_pitch(token, src_off) ==
    original_semitone(token) + src_off + (token.octave_offset * 12)

\* the shift applied in the opposite direction
target_relative_pitch_up(abs_pitch, tgt_off) == abs_pitch + tgt_off

target_relative_pitch(abs_pitch, tgt_off) == abs_pitch - tgt_off

\* Python's % : the result has the sign of the divisor
new_note_semitone_val(p) == p % 12

\* division truncated toward zero, as C's / would do
new_octave_trunc(p) == IF p >= 0 THEN p \div 12 ELSE -((-p) \div 12)

\* Python's // : floored
new_octave(p) == p \div 12

new_acc(new_acc_str) == IF new_acc_str = "#" THEN 1 ELSE 0

transpose_note(token, src_off, tgt_off) ==
    LET p == target_relative_pitch(absolute_pitch(token, src_off), tgt_off)
        entry == SEMITONE_TO_NOTE[new_note_semitone_val(p)]
    IN  NoteToken(IntOfDigit(entry[1]), new_acc(entry[2]), new_octave(p))

transpose_tokens(toks, src_key, tgt_key) ==
    [i \in 1..Len(toks) |->
        IF IsNote(toks[i])
        THEN transpose_note(toks[i], key_offset(src_key), key_offset(tgt_key))
        ELSE toks[i]]

----------------------------------------------------------------------------
(* parse_to_tokens.  Scan indices are Python's (0-based): the character at  *)
(* index k of a text t is t[k + 1], and a search that finds nothing yields  *)
(* -1.                                                                      *)

NoteDigits == {"1", "2", "3", "4", "5", "6", "7"}

normalize_brackets(t) ==
    [i \in 1..Len(t) |->
        CASE t[i] = "FW(" -> "("
          [] t[i] = "FW)" -> ")"
          [] t[i] = "FW[" -> "["
          [] t[i] = "FW]" -> "]"
          [] OTHER -> t[i]]

close_char(open_char) == IF open_char = "(" THEN ")" ELSE "]"

\* the while loop that looks for the closing bracket, from index l on
RECURSIVE scan_closing(_, _, _, _, _)
scan_closing(segment_text, l, balance, open_char, closing) ==
    IF ~(l < Len(segment_text)) THEN -1
    ELSE IF segment_text[l + 1] = open_char
         THEN scan_closing(segment_text, l + 1, balance + 1, open_char, closing)
    ELSE IF segment_text[l + 1] = closing
         THEN IF balance - 1 = 0 THEN l
              ELSE scan_closing(segment_text, l + 1, balance - 1, open_char,
                                closing)
    ELSE scan_closing(segment_text, l + 1, balance, open_char, closing)

\* the first closing bracket after k, whatever opens in between
closing_idx_first(segment_text, k, open_char) ==
    LET found == {l \in (k + 1)..(Len(segment_text) - 1) :
                     segment_text[l + 1] = close_char(open_char)}
    IN  IF found = {} THEN -1
        ELSE CHOOSE l \in found : \A x \in found : l <= x

closing_idx(segment_text, k, open_char) ==
    scan_closing(segment_text, k + 1, 1, open_char, close_char(open_char))

inner_text(segment_text, k, closing) == SubSeq(segment_text, k + 2, closing)

inner_offset(open_char, current_octave_offset) ==
    IF open_char = "(" THEN current_octave_offset - 1
    ELSE current_octave_offset + 1

accidental_of(char) ==
    IF char = "#" THEN 1
    ELSE IF char \in {"b", "FLAT"} THEN -1
    ELSE 0

\* the bound of the test off by one: the last character is never a note
is_note_at_short(segment_text, temp_k) ==
    /\ temp_k + 1 < Len(segment_text)
    /\ segment_text[temp_k + 1] \in NoteDigits

is_note_at(segment_text, temp_k) ==
    /\ temp_k < Len(segment_text)
    /\ segment_text[temp_k + 1] \in NoteDigits

\* an accidental without a digit after it dropped from the output
lone_accidental_dropped(char) == <<>>

lone_accidental(char) == <<StrToken(char)>>

\* one iteration of the loop on a character that opens no bracket: the
\* tokens appended, the next k and the branch taken
scan_char(segment_text, k, current_octave_offset) ==
    LET char == segment_text[k + 1]
        accidental == accidental_of(char)
        temp_k == IF accidental # 0 THEN k + 1 ELSE k
    IN  IF is_note_at(segment_text, temp_k)
        THEN [tokens |-> <<NoteToken(IntOfDigit(segment_text[temp_k + 1]),
                                     accidental, current_octave_offset)>>,
              k |-> temp_k + 1, branch |-> "note"]
        ELSE IF accidental # 0
        THEN [tokens |-> lone_accidental(char), k |-> k + 1,
              branch |-> "accidental"]
        ELSE IF char \in NoteDigits
        THEN [tokens |-> <<>>, k |-> k, branch |-> "pass"]
        ELSE [tokens |-> <<StrToken(char)>>, k |-> k + 1, branch |-> "plain"]

RECURSIVE parse_loop(_, _, _, _)
RECURSIVE parse_segment(_, _)

\* the loop of parse_segment from index k on, local_tokens collected so far
parse_loop(segment_text, current_octave_offset, k, local_tokens) ==
    IF ~(k < Len(segment_text)) THEN local_tokens
    ELSE
      LET char == segment_text[k + 1] IN
      IF char \in {"(", "["}
      THEN LET closing == closing_idx(segment_text, k, char) IN
           IF closing # -1
           THEN parse_loop(segment_text, current_octave_offset, closing + 1,
                    local_tokens \o
                    parse_segment(inner_text(segment_text, k, closing),
                                  inner_offset(char, current_octave_offset)))
           ELSE parse_loop(segment_text, current_octave_offset, k + 1,
                           Append(local_tokens, StrToken(char)))
      ELSE LET r == scan_char(segment_text, k, current_octave_offset) IN
           parse_loop(segment_text, current_octave_offset, r.k,
                      local_tokens \o r.tokens)

parse_segment(segment_text, current_octave_offset) ==
    parse_loop(segment_text, current_octave_offset, 0, <<>>)

parse_to_tokens(t) == parse_segment(normalize_brackets(t), 0)

----------------------------------------------------------------------------
(* render_tokens.                                                           *)

Repeat(c, count) == [i \in 1..count |-> c]

acc_str(token) ==
    IF token.accidental = 1 THEN <<"#">>
    ELSE IF token.accidental = -1 THEN <<"b">>
    ELSE <<>>

note_str(token) == acc_str(token) \o <<DigitOfInt(token.note_num)>>

open_bracket(token) == IF token.octave_offset < 0 THEN "(" ELSE "["

wrap_count(token) ==
    IF token.octave_offset < 0 THEN -token.octave_offset
    ELSE token.octave_offset

render_note(token) ==
    Repeat(open_bracket(token), wrap_count(token))
        \o note_str(token)
        \o Repeat(close_char(open_bracket(token)), wrap_count(token))

render_str(token) == <<token.text>>

\* the list the loop of render_tokens builds, one piece for each token
render_pieces(toks) ==
    [i \in 1..Len(toks) |->
        IF IsNote(toks[i]) THEN render_note(toks[i]) ELSE render_str(toks[i])]

\* "".join(result)
RECURSIVE Join(_)
Join(ps) == IF ps = <<>> THEN <<>> ELSE Head(ps) \o Join(Tail(ps))

render_tokens(toks) == Join(render_pieces(toks))

----------------------------------------------------------------------------
(* NoteSpec: transpose_tokens applied to one note token, then applied again *)
(* with the two keys exchanged.                                             *)

\* the key names given on the command line: the table's, a lower-case
\* spelling and a name the table does not hold
KeyInputs == DOMAIN KEY_OFFSETS \cup {"bb", "H"}

NoteInputs ==
    {NoteToken(d, a, o) : d \in 1..7, a \in {-1, 0, 1}, o \in (-MaxOct)..MaxOct}

NoteInit ==
    /\ text = <<>>
    /\ source_key \in KeyInputs
    /\ target_key \in KeyInputs
    /\ source_offset = 0
    /\ target_offset = 0
    /\ tokens \in {<<n>> : n \in NoteInputs}
    /\ transposed = <<>>
    /\ back = <<>>
    /\ pieces = <<>>
    /\ result_text = <<>>
    /\ reparsed = <<>>
    /\ stack = <<>>
    /\ branch = "none"
    /\ pc = "tokens"

Transpose ==
    /\ pc = "tokens"
    /\ source_offset' = key_offset(source_key)
    /\ target_offset' = key_offset(target_key)
    /\ transposed' = transpose_tokens(tokens, source_key, target_key)
    /\ pc' = "transposed"
    /\ UNCHANGED <<text, source_key, target_key, tokens, back, pieces,
                   result_text, reparsed, stack, branch>>

TransposeBack ==
    /\ pc = "transposed"
    /\ back' = transpose_tokens(transposed, target_key, source_key)
    /\ pc' = "back"
    /\ UNCHANGED <<text, source_key, target_key, source_offset, target_offset,
                   tokens, transposed, pieces, result_text, reparsed, stack, branch>>

NoteNext == Transpose \/ TransposeBack

NoteSpec == NoteInit /\ [][NoteNext]_vars

----------------------------------------------------------------------------
(* Spec: transpose_sheet on a sheet text, followed by a second tokenizing   *)
(* of the text it returned.                                                 *)

Texts(alphabet, max_len) == UNION {[1..n -> alphabet] : n \in 0..max_len}

SheetAlphabet == {"7", "#", "b", "(", ")", "[", "]", "@", "FW("}

\* the sheets of the documented examples
ScenarioTexts ==
    {<<"1", "2", "3", "4", "5", "6", "7">>, <<"(", "1", ")">>,
     <<"[", "#", "2", "]">>, <<"(", "1">>, <<"1", "@", "2">>}

SheetTexts == Texts(SheetAlphabet, MaxSheetLen) \cup ScenarioTexts

SheetSourceKeys == {"C", "D"}
SheetTargetKeys == {"C", "D", "G", "B"}

Init ==
    /\ text \in SheetTexts
    /\ source_key \in SheetSourceKeys
    /\ target_key \in SheetTargetKeys
    /\ source_offset = 0
    /\ target_offset = 0
    /\ tokens = <<>>
    /\ transposed = <<>>
    /\ back = <<>>
    /\ pieces = <<>>
    /\ result_text = <<>>
    /\ reparsed = <<>>
    /\ stack = <<>>
    /\ branch = "none"
    /\ pc = "text"

Parse ==
    /\ pc = "text"
    /\ tokens' = parse_to_tokens(text)
    /\ pc' = "tokens"
    /\ UNCHANGED <<text, source_key, target_key, source_offset, target_offset,
                   transposed, back, pieces, result_text, reparsed, stack,
                   branch>>

Render ==
    /\ pc = "transposed"
    /\ pieces' = render_pieces(transposed)
    /\ result_text' = render_tokens(transposed)
    /\ pc' = "rendered"
    /\ UNCHANGED <<text, source_key, target_key, source_offset, target_offset,
                   tokens, transposed, back, reparsed, stack, branch>>

Reparse ==
    /\ pc = "rendered"
    /\ reparsed' = parse_to_tokens(result_text)
    /\ pc' = "reparsed"
    /\ UNCHANGED <<text, source_key, target_key, source_offset, target_offset,
                   tokens, transposed, back, pieces, result_text, stack,
                   branch>>

Next == Parse \/ Transpose \/ Render \/ Reparse

Spec == Init /\ [][Next]_vars

----------------------------------------------------------------------------
(* ParseSpec: parse_to_tokens run one loop iteration at a time.  stack is   *)
(* the call stack of parse_segment, the running call last; a frame holds    *)
(* the call's arguments and locals, and in ret the value k takes when the   *)
(* recursive call the frame is waiting for returns.                         *)

ParseAlphabet == {"(", ")", "[", "]", "1", "#"}

ParseTexts == Texts(ParseAlphabet, MaxParseLen)

Frame(segment_text, current_octave_offset) ==
    [segment_text |-> segment_text,
     current_octave_offset |-> current_octave_offset,
     k |-> 0, local_tokens |-> <<>>, ret |-> 0]

Top == stack[Len(stack)]

SetTop(frame) == [stack EXCEPT ![Len(stack)] = frame]

Scanning == pc = "parsing" /\ Top.k < Len(Top.segment_text)

TopChar == Top.segment_text[Top.k + 1]

ParseInit ==
    /\ text \in ParseTexts
    /\ source_key = "C"
    /\ target_key = "C"
    /\ source_offset = 0
    /\ target_offset = 0
    /\ tokens = <<>>
    /\ transposed = <<>>
    /\ back = <<>>
    /\ pieces = <<>>
    /\ result_text = <<>>
    /\ reparsed = <<>>
    /\ stack = <<>>
    /\ branch = "none"
    /\ pc = "text"

ParseFrame == <<text, source_key, target_key, source_offset, target_offset,
                transposed, back, pieces, result_text, reparsed>>

\* parse_to_tokens normalizes the text and calls parse_segment(text, 0)
StartParse ==
    /\ pc = "text"
    /\ stack' = <<Frame(normalize_brackets(text), 0)>>
    /\ branch' = "start"
    /\ pc' = "parsing"
    /\ UNCHANGED <<ParseFrame, tokens>>

\* an opening bracket with its closing bracket: the recursive call
CallSegment ==
    /\ Scanning
    /\ TopChar \in {"(", "["}
    /\ LET closing == closing_idx(Top.segment_text, Top.k, TopChar) IN
        /\ closing # -1
        /\ stack' = Append(SetTop([Top EXCEPT !.ret = closing + 1]),
                       Frame(inner_text(Top.segment_text, Top.k, closing),
                             inner_offset(TopChar, Top.current_octave_offset)))
    /\ branch' = "call"
    /\ UNCHANGED <<ParseFrame, tokens, pc>>

\* an opening bracket without a closing bracket: a literal
UnmatchedBracket ==
    /\ Scanning
    /\ TopChar \in {"(", "["}
    /\ closing_idx(Top.segment_text, Top.k, TopChar) = -1
    /\ stack' = SetTop([Top EXCEPT
                          !.local_tokens = Append(@, StrToken(TopChar)),
                          !.k = @ + 1])
    /\ branch' = "unmatched"
    /\ UNCHANGED <<ParseFrame, tokens, pc>>

\* any other character: a note, a lone accidental or plain text
ScanChar ==
    /\ Scanning
    /\ TopChar \notin {"(", "["}
    /\ LET r == scan_char(Top.segment_text, Top.k, Top.current_octave_offset)
       IN  /\ stack' = SetTop([Top EXCEPT
                                 !.local_tokens = @ \o r.tokens,
                                 !.k = r.k])
           /\ branch' = r.branch
    /\ UNCHANGED <<ParseFrame, tokens, pc>>

\* the end of a recursive call: its tokens extend the caller's
ReturnSegment ==
    /\ pc = "parsing"
    /\ ~(Top.k < Len(Top.segment_text))
    /\ Len(stack) > 1
    /\ LET caller == stack[Len(stack) - 1] IN
        stack' = [SubSeq(stack, 1, Len(stack) - 1) EXCEPT
                    ![Len(stack) - 1] =
                        [caller EXCEPT
                           !.local_tokens = @ \o Top.local_tokens,
                           !.k = caller.ret]]
    /\ branch' = "return"
    /\ UNCHANGED <<ParseFrame, tokens, pc>>

\* the end of the outermost call: parse_to_tokens returns
FinishParse ==
    /\ pc = "parsing"
    /\ ~(Top.k < Len(Top.segment_text))
    /\ Len(stack) = 1
    /\ tokens' = Top.local_tokens
    /\ stack' = <<>>
    /\ branch' = "done"
    /\ pc' = "tokens"
    /\ UNCHANGED ParseFrame

ParseNext ==
    \/ StartParse
    \/ CallSegment
    \/ UnmatchedBracket
    \/ ScanChar
    \/ ReturnSegment
    \/ FinishParse

\* the program is one thread that runs until it returns
ParseSpec == ParseInit /\ [][ParseNext]_vars /\ WF_vars(ParseNext)

----------------------------------------------------------------------------
(* Vocabulary of the properties.                                            *)

\* semitones of a degree above the tonic in a major scale
MajorScaleBase(d) ==
    CASE d = 1 -> 0 [] d = 2 -> 2 [] d = 3 -> 4 [] d = 4 -> 5
      [] d = 5 -> 7 [] d = 6 -> 9 [] d = 7 -> 11

\* semitone of a note within its octave, and on the octave-aware axis
SemitoneOf(n) == MajorScaleBase(n.note_num) + n.accidental
PitchOf(n) == n.octave_offset * 12 + SemitoneOf(n)

\* the twelve (degree, accidental) spellings of the reverse table
TableSpellings ==
    {<<1, 0>>, <<1, 1>>, <<2, 0>>, <<2, 1>>, <<3, 0>>, <<4, 0>>, <<4, 1>>,
     <<5, 0>>, <<5, 1>>, <<6, 0>>, <<6, 1>>, <<7, 0>>}

SpellingOf(n) == <<n.note_num, n.accidental>>

\* the note spelled by the reverse table at pitch p
SpelledAt(p) ==
    CHOOSE n \in {NoteToken(sp[1], sp[2], o) :
                    sp \in TableSpellings, o \in (p \div 12 - 1)..(p \div 12 + 1)} :
        PitchOf(n) = p

KeyTable == DOMAIN KEY_OFFSETS

\* the pitch class 0..11 of a key name: its letter plus its sharp or flat
PitchClassOf(k) ==
    CASE k = "C" -> 0 [] k = "C#" -> 1 [] k = "Db" -> 1 [] k = "D" -> 2
      [] k = "D#" -> 3 [] k = "Eb" -> 3 [] k = "E" -> 4 [] k = "F" -> 5
      [] k = "F#" -> 6 [] k = "Gb" -> 6 [] k = "G" -> 7 [] k = "G#" -> 8
      [] k = "Ab" -> 8 [] k = "A" -> 9 [] k = "A#" -> 10 [] k = "Bb" -> 10
      [] k = "B" -> 11

Enharmonic(a, b) ==
    {a, b} \in {{"C#", "Db"}, {"D#", "Eb"}, {"F#", "Gb"}, {"G#", "Ab"},
                {"A#", "Bb"}}

NoteIndices(toks) == {i \in 1..Len(toks) : IsNote(toks[i])}

----------------------------------------------------------------------------
(* Properties of transpose_tokens, checked under NoteSpec.                  *)

\* C1 (as stated): transposing from A to B and back from B to A returns
\* every note with its original degree, accidental and octave offset.
C1_RoundTripExact ==
    (pc = "back" /\ source_key \in KeyTable /\ target_key \in KeyTable)
        => back = tokens

\* C1 (amended): the round trip A -> B -> A returns every note at its
\* original pitch, spelled by the reverse table; the note itself comes back
\* whenever it was spelled as the reverse table spells it.
C1_RoundTripPitch ==
    (pc = "back" /\ source_key \in KeyTable /\ target_key \in KeyTable)
        => /\ Len(back) = Len(tokens)
           /\ \A i \in NoteIndices(tokens) :
                /\ IsNote(back[i])
                /\ PitchOf(back[i]) = PitchOf(tokens[i])
                /\ SpellingOf(back[i]) \in TableSpellings
                /\ SpellingOf(tokens[i]) \in TableSpellings
                       => back[i] = tokens[i]

\* a round trip between two different keys that respells a flat
C1_Witness ==
    /\ pc = "back"
    /\ source_key = "C"
    /\ target_key = "G"
    /\ tokens = <<NoteToken(1, -1, 0)>>
    /\ transposed = <<NoteToken(3, 0, 0)>>
    /\ back = <<NoteToken(7, 0, -1)>>

\* C2 (as stated): transposing from a key to the same key returns every
\* note with the same degree, accidental and octave offset.
C2_IdentityExact ==
    (pc = "transposed" /\ source_key \in KeyTable /\ target_key = source_key)
        => transposed = tokens

\* C2 (amended): transposing from a key to the same key returns every note
\* at the same pitch, spelled by the reverse table; the note is unchanged
\* whenever it was spelled as the reverse table spells it.
C2_IdentityPitch ==
    (pc = "transposed" /\ source_key \in KeyTable /\ target_key = source_key)
        => /\ Len(transposed) = Len(tokens)
           /\ \A i \in NoteIndices(tokens) :
                /\ IsNote(transposed[i])
                /\ PitchOf(transposed[i]) = PitchOf(tokens[i])
                /\ SpellingOf(transposed[i]) \in TableSpellings
                /\ SpellingOf(tokens[i]) \in TableSpellings
                       => transposed[i] = tokens[i]

\* a same-key transposition that respells #7 as 1 an octave higher
C2_Witness ==
    /\ pc = "transposed"
    /\ source_key = "Eb"
    /\ target_key = "Eb"
    /\ tokens = <<NoteToken(7, 1, 0)>>
    /\ transposed = <<NoteToken(1, 0, 1)>>

\* C4: the output note's semitone lies in 0..11 and its pitch equals the
\* input's pitch plus the source key offset minus the target key offset,
\* also when that pitch is negative (floored division).
C4_PitchConservation ==
    pc = "transposed" =>
        \A i \in NoteIndices(tokens) :
            /\ SemitoneOf(transposed[i]) \in 0..11
            /\ PitchOf(transposed[i])
                   = PitchOf(tokens[i]) + source_offset - target_offset

\* a transposition whose target-relative pitch is -13
C4_Witness ==
    /\ pc = "transposed"
    /\ PitchOf(tokens[1]) + source_offset - target_offset = -13
    /\ transposed[1].octave_offset = -2
    /\ SemitoneOf(transposed[1]) = 11

\* C5: every transposed note has a degree in 1..7 and an accidental in
\* {0, +1}, and is one of the twelve spellings of the reverse table.
C5_SharpOnly ==
    /\ \A i \in NoteIndices(transposed) :
        /\ transposed[i].note_num \in 1..7
        /\ transposed[i].accidental \in {0, 1}
        /\ SpellingOf(transposed[i]) \in TableSpellings
    /\ \A i \in NoteIndices(back) :
        /\ back[i].note_num \in 1..7
        /\ back[i].accidental \in {0, 1}
        /\ SpellingOf(back[i]) \in TableSpellings

\* a flat that is transposed to the semitone #3 would spell, and comes out 4
C5_Witness ==
    /\ pc = "transposed"
    /\ tokens[1].accidental = -1
    /\ (PitchOf(tokens[1]) + source_offset - target_offset) % 12 = 5
    /\ SpellingOf(transposed[1]) = <<4, 0>>

\* C8 (as stated): every key name of the table resolves to a semitone
\* offset in 0..11, and enharmonic spellings resolve to the same offset.
C8_OffsetsInOctave ==
    pc = "transposed" =>
        /\ source_key \in KeyTable => source_offset \in 0..11
        /\ target_key \in KeyTable => target_offset \in 0..11
        /\ Enharmonic(source_key, target_key) => source_offset = target_offset

\* C8 (amended): every key name of the table resolves to an offset in
\* -5..6 (G lowest, F# highest) that is congruent modulo 12 to the key's
\* pitch class, and enharmonic spellings resolve to the same offset.
C8_OffsetsAroundC ==
    pc = "transposed" =>
        /\ source_key \in KeyTable =>
              /\ source_offset \in (-5)..6
              /\ source_offset % 12 = PitchClassOf(source_key)
        /\ target_key \in KeyTable =>
              /\ target_offset \in (-5)..6
              /\ target_offset % 12 = PitchClassOf(target_key)
        /\ Enharmonic(source_key, target_key) => source_offset = target_offset

\* a key below C and two enharmonic spellings, both resolved
C8_Witness ==
    /\ pc = "transposed"
    /\ source_key = "Ab"
    /\ target_key = "G#"
    /\ source_offset = -4
    /\ target_offset = -4

----------------------------------------------------------------------------
(* Vocabulary of the properties of texts.  Positions are 1-based.           *)

Accidentals == {"#", "b", "FLAT"}

\* the character at position i is a digit 1..7, or an accidental marker
\* immediately followed by one
NotePart(t, i) ==
    \/ t[i] \in NoteDigits
    \/ t[i] \in Accidentals /\ i < Len(t) /\ t[i + 1] \in NoteDigits

\* the characters of t at the positions in keep, in order
RECURSIVE Pick(_, _, _)
Pick(t, keep, i) ==
    IF i > Len(t) THEN <<>>
    ELSE (IF i \in keep THEN <<t[i]>> ELSE <<>>) \o Pick(t, keep, i + 1)

CloserOf(c) == IF c = "(" THEN ")" ELSE "]"

Count(t, a, b, c) == Cardinality({x \in a..b : t[x] = c})

\* the closing bracket of the opening bracket at i: the first bracket after
\* i, of its kind, at which as many have closed as have opened; 0 if none
MatchOf(t, i) ==
    IF t[i] \notin {"(", "["} THEN 0
    ELSE LET js == {j \in (i + 1)..Len(t) :
                      /\ t[j] = CloserOf(t[i])
                      /\ Count(t, i, j, t[i]) = Count(t, i, j, CloserOf(t[i]))}
         IN  IF js = {} THEN 0 ELSE CHOOSE j \in js : \A x \in js : j <= x

Openers(t) == {i \in 1..Len(t) : MatchOf(t, i) # 0}

\* the opening brackets up to position i whose closing bracket lies inside
\* every pair, already counted, that the opening bracket lies inside
RECURSIVE NestedOpenersUpTo(_, _)
NestedOpenersUpTo(t, i) ==
    IF i = 0 THEN {}
    ELSE LET before == NestedOpenersUpTo(t, i - 1) IN
         IF /\ MatchOf(t, i) # 0
            /\ \A a \in before :
                  MatchOf(t, a) > i => MatchOf(t, i) < MatchOf(t, a)
         THEN before \cup {i}
         ELSE before

NestedOpeners(t) == NestedOpenersUpTo(t, Len(t))

\* brackets of kind c, among the opening brackets in from, enclosing p
Enclosing(t, from, p, c) == {i \in from : t[i] = c /\ i < p /\ p < MatchOf(t, i)}

NestingOffset(t, from, p) ==
    Cardinality(Enclosing(t, from, p, "[")) - Cardinality(Enclosing(t, from, p, "("))

\* the positions of the note digits of t, in order
RECURSIVE DigitPositions(_, _)
DigitPositions(t, i) ==
    IF i > Len(t) THEN <<>>
    ELSE (IF t[i] \in NoteDigits THEN <<i>> ELSE <<>>) \o DigitPositions(t, i + 1)

Notes(toks) == SelectSeq(toks, IsNote)

IsOpenLiteral(token) == token.type = "str" /\ token.text \in {"(", "["}

\* the literal pieces of the rendered list, joined
RECURSIVE LiteralPieces(_, _, _)
LiteralPieces(toks, ps, i) ==
    IF i > Len(ps) THEN <<>>
    ELSE (IF i <= Len(toks) /\ ~IsNote(toks[i]) THEN ps[i] ELSE <<>>)
            \o LiteralPieces(toks, ps, i + 1)

IsBracket(c) == c \in {"(", ")", "[", "]"}

\* the rendered list without the accidental and digit of each note: the
\* literal pieces and the brackets written around the notes, joined
RECURSIVE OutsideNotes(_, _, _)
OutsideNotes(toks, ps, i) ==
    IF i > Len(ps) THEN <<>>
    ELSE (IF i <= Len(toks) /\ IsNote(toks[i])
          THEN SelectSeq(ps[i], IsBracket)
          ELSE ps[i])
            \o OutsideNotes(toks, ps, i + 1)

----------------------------------------------------------------------------
(* Properties of transpose_sheet, checked under Spec.                       *)

\* C3 (as stated): from source key C to target key D every note is
\* rewritten to the note the reverse table spells two semitones above it,
\* the octave offset raised by one when the semitone wraps past 11.
C3_TwoSemitonesUp ==
    (pc = "transposed" /\ source_key = "C" /\ target_key = "D")
        => \A i \in NoteIndices(tokens) :
              transposed[i] = SpelledAt(PitchOf(tokens[i]) + 2)

\* C3 (amended): from source key C to target key D every note is rewritten
\* to the note the reverse table spells two semitones below it, the octave
\* offset lowered by one when the semitone wraps below 0; the sheet
\* "1234567" comes out as "(#6)12#2456".
C3_TwoSemitonesDown ==
    (pc \in {"transposed", "rendered"} /\ source_key = "C" /\ target_key = "D")
        => /\ \A i \in NoteIndices(tokens) :
                transposed[i] = SpelledAt(PitchOf(tokens[i]) - 2)
           /\ (pc = "rendered" /\ text = <<"1", "2", "3", "4", "5", "6", "7">>)
                => result_text = <<"(", "#", "6", ")", "1", "2", "#", "2",
                                   "4", "5", "6">>

\* the sheet "1234567" transposed from C to D and rendered
C3_Witness ==
    /\ pc = "rendered"
    /\ source_key = "C"
    /\ target_key = "D"
    /\ text = <<"1", "2", "3", "4", "5", "6", "7">>
    /\ transposed[1] = NoteToken(6, 1, -1)
    /\ transposed[7] = NoteToken(6, 0, 0)

\* C7 (as stated): the characters of the text that are not part of a
\* recognized note are, unchanged in value and in the same order, the
\* literals of the output (or, counting the brackets written around the
\* notes as passed through, the output without the accidental and digit of
\* each note), for any target key.
C7_AllPassThrough ==
    pc = "rendered" =>
        LET kept == Pick(text, {i \in 1..Len(text) : ~NotePart(text, i)}, 1)
        IN  \/ LiteralPieces(transposed, pieces, 1) = kept
            \/ OutsideNotes(transposed, pieces, 1) = kept

\* C7 (amended): every character that is neither part of a recognized note
\* nor a bracket of a matched pair is written to the output as a literal,
\* in the same order and unchanged in value but for a full-width bracket,
\* which is written as its ASCII equivalent; the brackets of a matched pair
\* are not copied.
C7_LiteralsPassThrough ==
    pc = "rendered" =>
        LET t == normalize_brackets(text)
            paired == NestedOpeners(t) \cup {MatchOf(t, i) : i \in NestedOpeners(t)}
        IN  /\ Len(pieces) = Len(transposed)
            /\ LiteralPieces(transposed, pieces, 1)
                 = Pick(t, {i \in 1..Len(t) : ~NotePart(t, i) /\ i \notin paired}, 1)

\* an unmatched full-width bracket and an unrelated symbol before a note
C7_Witness ==
    /\ pc = "rendered"
    /\ text = <<"FW(", "@", "7">>
    /\ target_key = "D"
    /\ source_key = "C"
    /\ LiteralPieces(transposed, pieces, 1) = <<"(", "@">>
    /\ result_text = <<"(", "@", "6">>

\* C9: tokenizing the text transpose_sheet returned yields the notes of the
\* transposed token sequence, each with the same degree, accidental and
\* octave offset.
C9_ReparseStable ==
    pc = "reparsed" => Notes(reparsed) = Notes(transposed)

----------------------------------------------------------------------------
(* Properties of parse_to_tokens, checked under ParseSpec.                  *)

\* C6 (as stated): each note token's octave offset is the number of matched
\* square-bracket pairs enclosing the note minus the number of matched
\* parenthesis pairs enclosing it, an opening bracket being matched to the
\* first closing bracket of its kind that returns its balance to zero.
C6_OffsetIsNesting ==
    pc = "tokens" =>
        LET t == normalize_brackets(text)
            ps == DigitPositions(t, 1)
            ns == Notes(tokens)
        IN  /\ Len(ns) = Len(ps)
            /\ \A j \in 1..Len(ns) :
                  ns[j].octave_offset = NestingOffset(t, Openers(t), ps[j])

\* C6 (amended): the same with the closing bracket looked for only inside
\* the text between the innermost matched pair around the opening bracket
\* (the whole text when there is none); an opening bracket without such a
\* closing bracket is a literal and changes no offset.
C6_OffsetIsProperNesting ==
    pc = "tokens" =>
        LET t == normalize_brackets(text)
            ps == DigitPositions(t, 1)
            ns == Notes(tokens)
        IN  /\ Len(ns) = Len(ps)
            /\ \A j \in 1..Len(ns) :
                  ns[j].octave_offset = NestingOffset(t, NestedOpeners(t), ps[j])
            /\ Len(SelectSeq(tokens, IsOpenLiteral))
                 = Cardinality({i \in 1..Len(t) : t[i] \in {"(", "["}}
                                   \ NestedOpeners(t))

\* crossed brackets: the square bracket opened inside the parentheses and
\* closed outside them is a literal, the note is one octave down
C6_Witness ==
    /\ pc = "tokens"
    /\ text = <<"(", "[", "1", ")", "]">>
    /\ tokens = <<StrToken("["), NoteToken(1, 0, -1), StrToken("]")>>

\* between two states of the tokenizer: a loop iteration that makes no call
\* raises k, a call is on a strictly shorter text, and a return raises the
\* caller's k
IterationAdvances ==
    (pc = "parsing" /\ pc' = "parsing") =>
        /\ Len(stack') = Len(stack)
              => stack'[Len(stack)].k > stack[Len(stack)].k
        /\ Len(stack') = Len(stack) + 1
              => Len(stack'[Len(stack')].segment_text)
                    < Len(stack[Len(stack)].segment_text)
        /\ Len(stack') = Len(stack) - 1
              => stack'[Len(stack')].k > stack[Len(stack')].k

\* C10: parse_to_tokens returns on every text: the branch that leaves k
\* unchanged is never taken, every iteration raises k, and every recursive
\* call is on a strictly shorter text.
C10_Terminates ==
    /\ [](branch # "pass")
    /\ [][IterationAdvances]_vars
    /\ <>(pc = "tokens")

\* a text with two nested calls and a bare digit, tokenized to the end
C10_Witness ==
    /\ pc = "tokens"
    /\ branch = "done"
    /\ text = <<"(", "(", "1", ")", ")">>
    /\ tokens = <<NoteToken(1, 0, -2)>>

====
